---- MODULE Spec2Model ----
(***************************************************************************)
(* kodegen-config: the git-root cache (src/src/git.rs) as a state machine  *)
(* of threads over a reader-writer lock, and the path resolution engine    *)
(* (src/src/lib.rs, toolset.rs, platform.rs, validation.rs) as operators   *)
(* over a small filesystem with symbolic links.                            *)
(***************************************************************************)
EXTENDS Integers, Sequences, FiniteSets, TLC

(***************************************************************************)
(* Bounds of the model.                                                    *)
(***************************************************************************)
\* threads of the process
NThreads == 2
\* find_git_root() and clear_git_root_cache() calls started, all threads together
MaxCalls == 3
\* changes the environment makes (chdir, git init, rm -rf .git), all together
MaxEnvChanges == 1

Threads == 1..NThreads
NoThread == 0

(***************************************************************************)
(* PART 1.  git.rs: GIT_ROOT_CACHE, find_git_root, clear_git_root_cache    *)
(***************************************************************************)

\* working directories the process may be in; NoCwd: std::env::current_dir() fails
Dirs == {"/w1", "/w2"}
NoCwd == "(deleted)"

\* what git2::Repository::discover finds when it walks up from a directory
RepoStates == {"workdir", "bare", "none"}

\* the work tree that contains a working directory
RootOf(d) == IF d = "/w1" THEN "/r1" ELSE "/r2"

\* Result<PathBuf>: the path, or the message of the anyhow error (its Display)
Ok(p) == [ok |-> TRUE, path |-> p, msg |-> "", from |-> ""]
Err(m, d) == [ok |-> FALSE, path |-> "", msg |-> m, from |-> d]
MsgNoCwd == "Failed to determine current directory"
MsgNotInRepo == "Not in a git repository (searched from: {})"
MsgBare == "Git repository has no working directory (bare repository?)"
NoResult == [ok |-> FALSE, path |-> "", msg |-> "(no call has returned)", from |-> ""]

\* Option<PathBuf>
None == [some |-> FALSE, path |-> ""]
Some(p) == [some |-> TRUE, path |-> p]

VARIABLES
    cache,      \* GIT_ROOT_CACHE's map: a set of <<key, Option<PathBuf>>> entries
    rw,         \* GIT_ROOT_CACHE's RwLock: [writer, readers]
    pc,         \* where each thread is in find_git_root / clear_git_root_cache
    key,        \* each thread's current_dir (the cache key of its call)
    result,     \* each thread's `result` local, then the value its call returned
    cwd,        \* the process's working directory
    repo,       \* what discovery finds from each directory (the filesystem)
    calls,      \* calls started so far
    envChanges, \* environment changes so far
    walks,      \* instrumentation: discover_git_root calls per key since the last clear
    clears,     \* instrumentation: clear_git_root_cache calls completed
    missed,     \* instrumentation: the thread's call missed the cache on the fast path
    doneEpoch,  \* instrumentation: the value of clears when the thread's call returned
    seen        \* instrumentation: results returned per key since the last clear

cacheVars == <<cache, rw, pc, key, result, cwd, repo, calls, envChanges,
               walks, clears, missed, doneEpoch, seen>>

\* HashMap::contains_key / get / insert / clear
cache_has(c, k) == \E e \in c : e[1] = k
cache_get(c, k) == (CHOOSE e \in c : e[1] = k)[2]
cache_insert(c, k, v) == {e \in c : e[1] # k} \cup {<<k, v>>}

\* mutation of cache_clear: the entry of one directory survives
cache_clear_keeps_one(c) == {e \in c : e[1] = "/w1"}

\* HashMap::clear
cache_clear(c) == {}

\* mutation of cached_to_result: a cached None is returned as a success
cached_to_result_always_ok(opt, d) == Ok(opt.path)

\* cached.clone().context("Not in a git repository (searched from: ..)")
cached_to_result(opt, d) == IF opt.some THEN Ok(opt.path) ELSE Err(MsgNotInRepo, d)

\* result.as_ref().ok().cloned()
cached_value(res) == IF res.ok THEN Some(res.path) ELSE None

\* discover_git_root(current_dir): Repository::discover, then repo.workdir()
discover_git_root(d) ==
    CASE repo[d] = "none" -> Err(MsgNotInRepo, d)
      [] repo[d] = "bare" -> Err(MsgBare, "")
      [] OTHER -> Ok(RootOf(d))

\* mutation of recheck_hit: the second check under the write lock is left out
recheck_hit_skipped(c, k) == FALSE

\* the double check under the write lock: cache.get(&current_dir) is Some
recheck_hit(c, k) == cache_has(c, k)

\* mutation of can_read: a reader does not wait for the writer
can_read_despite_writer(l) == TRUE

\* RwLock::read / RwLock::write can be granted
can_read(l) == l.writer = NoThread
can_write(l) == l.writer = NoThread /\ l.readers = {}

InitCache ==
    /\ cache = {}
    /\ rw = [writer |-> NoThread, readers |-> {}]
    /\ pc = [t \in Threads |-> "idle"]
    /\ key = [t \in Threads |-> NoCwd]
    /\ result = [t \in Threads |-> NoResult]
    /\ cwd \in Dirs \cup {NoCwd}
    /\ repo \in [Dirs -> RepoStates]
    /\ calls = 0
    /\ envChanges = 0
    /\ walks = [d \in Dirs |-> 0]
    /\ clears = 0
    /\ missed = [t \in Threads |-> FALSE]
    /\ doneEpoch = [t \in Threads |-> 0]
    /\ seen = [d \in Dirs |-> {}]

Returned(t, res, k) ==
    /\ result' = [result EXCEPT ![t] = res]
    /\ pc' = [pc EXCEPT ![t] = "done"]
    /\ doneEpoch' = [doneEpoch EXCEPT ![t] = clears]
    /\ seen' = [seen EXCEPT ![k] = @ \cup {res}]

\* mutation of CallNoCwd: the failure is memoized under the write lock
CallNoCwd_memoized(t) ==
    /\ pc[t] \in {"idle", "done"}
    /\ calls < MaxCalls
    /\ cwd = NoCwd
    /\ can_write(rw)
    /\ calls' = calls + 1
    /\ cache' = cache_insert(cache, NoCwd, None)
    /\ result' = [result EXCEPT ![t] = Err(MsgNoCwd, "")]
    /\ pc' = [pc EXCEPT ![t] = "done"]
    /\ key' = [key EXCEPT ![t] = NoCwd]
    /\ missed' = [missed EXCEPT ![t] = FALSE]
    /\ doneEpoch' = [doneEpoch EXCEPT ![t] = clears]
    /\ UNCHANGED <<rw, cwd, repo, envChanges, walks, clears, seen>>

\* find_git_root, lines 38-39: current_dir() failed
CallNoCwd(t) ==
    /\ pc[t] \in {"idle", "done"}
    /\ calls < MaxCalls
    /\ cwd = NoCwd
    /\ calls' = calls + 1
    /\ result' = [result EXCEPT ![t] = Err(MsgNoCwd, "")]
    /\ pc' = [pc EXCEPT ![t] = "done"]
    /\ key' = [key EXCEPT ![t] = NoCwd]
    /\ missed' = [missed EXCEPT ![t] = FALSE]
    /\ doneEpoch' = [doneEpoch EXCEPT ![t] = clears]
    /\ UNCHANGED <<cache, rw, cwd, repo, envChanges, walks, clears, seen>>

\* find_git_root, lines 38-39: current_dir() is the key
Call(t) ==
    /\ pc[t] \in {"idle", "done"}
    /\ calls < MaxCalls
    /\ cwd # NoCwd
    /\ calls' = calls + 1
    /\ key' = [key EXCEPT ![t] = cwd]
    /\ pc' = [pc EXCEPT ![t] = "rlock"]
    /\ missed' = [missed EXCEPT ![t] = FALSE]
    /\ UNCHANGED <<cache, rw, result, cwd, repo, envChanges, walks, clears,
                   doneEpoch, seen>>

\* line 43: GIT_ROOT_CACHE.read()
ReadLock(t) ==
    /\ pc[t] = "rlock"
    /\ can_read(rw)
    /\ rw' = [rw EXCEPT !.readers = @ \cup {t}]
    /\ pc' = [pc EXCEPT ![t] = "fast"]
    /\ UNCHANGED <<cache, key, result, cwd, repo, calls, envChanges, walks,
                   clears, missed, doneEpoch, seen>>

\* lines 44-51: a hit under the read lock returns the cached value
FastPathHit(t) ==
    /\ pc[t] = "fast"
    /\ cache_has(cache, key[t])
    /\ rw' = [rw EXCEPT !.readers = @ \ {t}]
    /\ Returned(t, cached_to_result(cache_get(cache, key[t]), key[t]), key[t])
    /\ UNCHANGED <<cache, key, cwd, repo, calls, envChanges, walks, clears, missed>>

\* mutation of drop_read_guard: the read guard lives to the end of the function
drop_read_guard_kept(l, t) == l

\* line 52: the block of the fast path ends and the read guard is dropped
drop_read_guard(l, t) == [l EXCEPT !.readers = @ \ {t}]

\* line 52: a miss drops the read guard
FastPathMiss(t) ==
    /\ pc[t] = "fast"
    /\ ~cache_has(cache, key[t])
    /\ rw' = drop_read_guard(rw, t)
    /\ pc' = [pc EXCEPT ![t] = "wlock"]
    /\ missed' = [missed EXCEPT ![t] = TRUE]
    /\ UNCHANGED <<cache, key, result, cwd, repo, calls, envChanges, walks,
                   clears, doneEpoch, seen>>

\* line 55: GIT_ROOT_CACHE.write()
WriteLock(t) ==
    /\ pc[t] = "wlock"
    /\ can_write(rw)
    /\ rw' = [rw EXCEPT !.writer = t]
    /\ pc' = [pc EXCEPT ![t] = "recheck"]
    /\ UNCHANGED <<cache, key, result, cwd, repo, calls, envChanges, walks,
                   clears, missed, doneEpoch, seen>>

\* lines 58-64: the double check hits; return drops the write guard
RecheckHit(t) ==
    /\ pc[t] = "recheck"
    /\ recheck_hit(cache, key[t])
    /\ rw' = [rw EXCEPT !.writer = NoThread]
    /\ Returned(t, cached_to_result(cache_get(cache, key[t]), key[t]), key[t])
    /\ UNCHANGED <<cache, key, cwd, repo, calls, envChanges, walks, clears, missed>>

\* lines 58-64: the double check misses
RecheckMiss(t) ==
    /\ pc[t] = "recheck"
    /\ ~recheck_hit(cache, key[t])
    /\ pc' = [pc EXCEPT ![t] = "walk"]
    /\ UNCHANGED <<cache, rw, key, result, cwd, repo, calls, envChanges, walks,
                   clears, missed, doneEpoch, seen>>

\* line 67: let result = discover_git_root(&current_dir)
Walk(t) ==
    /\ pc[t] = "walk"
    /\ result' = [result EXCEPT ![t] = discover_git_root(key[t])]
    /\ walks' = [walks EXCEPT ![key[t]] = @ + 1]
    /\ pc' = [pc EXCEPT ![t] = "insert"]
    /\ UNCHANGED <<cache, rw, key, cwd, repo, calls, envChanges, clears, missed,
                   doneEpoch, seen>>

\* mutation of insert_result: only a successful discovery is cached
insert_result_ok_only(c, k, res) ==
    IF res.ok THEN cache_insert(c, k, cached_value(res)) ELSE c

\* the entries of the cache after lines 70-71 have run for `res`
insert_result(c, k, res) == cache_insert(c, k, cached_value(res))

\* lines 70-71: cache.insert(current_dir.clone(), cached_value)
Insert(t) ==
    /\ pc[t] = "insert"
    /\ cache' = insert_result(cache, key[t], result[t])
    /\ pc' = [pc EXCEPT ![t] = "ret"]
    /\ UNCHANGED <<rw, key, result, cwd, repo, calls, envChanges, walks, clears,
                   missed, doneEpoch, seen>>

\* lines 73-74: return result; the write guard is dropped
Return(t) ==
    /\ pc[t] = "ret"
    /\ rw' = [rw EXCEPT !.writer = NoThread]
    /\ Returned(t, result[t], key[t])
    /\ UNCHANGED <<cache, key, cwd, repo, calls, envChanges, walks, clears, missed>>

\* clear_git_root_cache is called
ClearCall(t) ==
    /\ pc[t] \in {"idle", "done"}
    /\ calls < MaxCalls
    /\ calls' = calls + 1
    /\ pc' = [pc EXCEPT ![t] = "clock"]
    /\ UNCHANGED <<cache, rw, key, result, cwd, repo, envChanges, walks, clears,
                   missed, doneEpoch, seen>>

\* line 102: GIT_ROOT_CACHE.write()
ClearLock(t) ==
    /\ pc[t] = "clock"
    /\ can_write(rw)
    /\ rw' = [rw EXCEPT !.writer = t]
    /\ pc' = [pc EXCEPT ![t] = "clearing"]
    /\ UNCHANGED <<cache, key, result, cwd, repo, calls, envChanges, walks,
                   clears, missed, doneEpoch, seen>>

\* line 102: .clear(); the temporary guard is dropped at the end of the statement
Clear(t) ==
    /\ pc[t] = "clearing"
    /\ cache' = cache_clear(cache)
    /\ rw' = [rw EXCEPT !.writer = NoThread]
    /\ pc' = [pc EXCEPT ![t] = "idle"]
    /\ clears' = clears + 1
    /\ walks' = [d \in Dirs |-> 0]
    /\ seen' = [d \in Dirs |-> {}]
    /\ UNCHANGED <<key, result, cwd, repo, calls, envChanges, missed, doneEpoch>>

\* the environment: std::env::set_current_dir, or the directory is deleted
ChDir(d) ==
    /\ envChanges < MaxEnvChanges
    /\ d # cwd
    /\ cwd' = d
    /\ envChanges' = envChanges + 1
    /\ UNCHANGED <<cache, rw, pc, key, result, repo, calls, walks, clears,
                   missed, doneEpoch, seen>>

\* the environment: a .git directory is created, deleted or made bare
GitChange(d, s) ==
    /\ envChanges < MaxEnvChanges
    /\ s # repo[d]
    /\ repo' = [repo EXCEPT ![d] = s]
    /\ envChanges' = envChanges + 1
    /\ UNCHANGED <<cache, rw, pc, key, result, cwd, calls, walks, clears,
                   missed, doneEpoch, seen>>

CacheNext ==
    \/ \E t \in Threads : CallNoCwd(t)
    \/ \E t \in Threads : Call(t)
    \/ \E t \in Threads : ReadLock(t)
    \/ \E t \in Threads : FastPathHit(t)
    \/ \E t \in Threads : FastPathMiss(t)
    \/ \E t \in Threads : WriteLock(t)
    \/ \E t \in Threads : RecheckHit(t)
    \/ \E t \in Threads : RecheckMiss(t)
    \/ \E t \in Threads : Walk(t)
    \/ \E t \in Threads : Insert(t)
    \/ \E t \in Threads : Return(t)
    \/ \E t \in Threads : ClearCall(t)
    \/ \E t \in Threads : ClearLock(t)
    \/ \E t \in Threads : Clear(t)
    \/ \E d \in Dirs \cup {NoCwd} : ChDir(d)
    \/ \E d \in Dirs, s \in RepoStates : GitChange(d, s)

(***************************************************************************)
(* PART 2.  Paths and the filesystem (std::path, std::fs::canonicalize)    *)
(*                                                                         *)
(* A string is a sequence of characters; a character is a one-character    *)
(* string, a named character ("NUL", "TAB", "LF", "ESC") or, for the fixed *)
(* names of the program and of the filesystem, a whole run of ordinary     *)
(* characters ("toolset", ".json").  A PathBuf is its string.              *)
(***************************************************************************)
\* bounds: the longest name or file name a caller passes, and the symbolic
\* links one canonicalization follows
MaxNameLen == 3
MaxSymlinkHops == 2

Slash == "/"
Dot == "."
DotDot == <<".", ".">>

\* str::contains(sub), str::starts_with(sub)
Contains(s, sub) ==
    \E i \in 1..(Len(s) - Len(sub) + 1) : SubSeq(s, i, i + Len(sub) - 1) = sub
StartsWithStr(s, sub) ==
    Len(s) >= Len(sub) /\ SubSeq(s, 1, Len(sub)) = sub

\* Path::is_absolute (Unix)
is_absolute(p) == p # <<>> /\ p[1] = Slash

\* Path::components: the names between separators; empty names and "." dropped,
\* ".." kept
RECURSIVE split(_, _, _)
split(s, cur, acc) ==
    IF s = <<>> THEN (IF cur = <<>> THEN acc ELSE Append(acc, cur))
    ELSE IF Head(s) = Slash
         THEN split(Tail(s), <<>>, IF cur = <<>> THEN acc ELSE Append(acc, cur))
         ELSE split(Tail(s), Append(cur, Head(s)), acc)
components(p) == SelectSeq(split(p, <<>>, <<>>), LAMBDA c : c # <<Dot>>)

\* the string of an absolute path with the given components
RECURSIVE to_path(_)
to_path(cs) ==
    IF cs = <<>> THEN <<>> ELSE <<Slash>> \o Head(cs) \o to_path(Tail(cs))
abs_path(cs) == IF cs = <<>> THEN <<Slash>> ELSE to_path(cs)

\* PathBuf::join / push: an absolute argument replaces the path
join(p, q) ==
    IF is_absolute(q) THEN q
    ELSE IF p = <<>> THEN q
    ELSE IF p[Len(p)] = Slash THEN p \o q
    ELSE p \o <<Slash>> \o q

\* Path::starts_with: whole components, never a prefix of a name
starts_with(p, base) ==
    LET pc_ == components(p)
        bc == components(base)
    IN  /\ is_absolute(p) = is_absolute(base)
        /\ Len(bc) <= Len(pc_)
        /\ SubSeq(pc_, 1, Len(bc)) = bc

\* Path::components as Path::parent and Path::file_name see them: a leading
\* "." of a relative path is a component (CurDir), every other "." is dropped
leading_cur_dir(p) ==
    /\ ~is_absolute(p)
    /\ split(p, <<>>, <<>>) # <<>>
    /\ Head(split(p, <<>>, <<>>)) = <<Dot>>
path_components(p) ==
    IF leading_cur_dir(p) THEN << <<Dot>> >> \o components(p) ELSE components(p)

\* the string of a relative path with the given components
rel_path(cs) == IF cs = <<>> THEN <<>> ELSE Tail(to_path(cs))

\* Path::parent: None for the root and for the empty path
has_parent(p) == path_components(p) # <<>>
parent(p) ==
    LET cs == path_components(p)
        init == SubSeq(cs, 1, Len(cs) - 1)
    IN  IF is_absolute(p) THEN abs_path(init) ELSE rel_path(init)

\* Path::file_name: None when the path ends in ".." or is "."
has_file_name(p) ==
    LET cs == path_components(p)
    IN  cs # <<>> /\ cs[Len(cs)] # DotDot /\ cs[Len(cs)] # <<Dot>>
file_name(p) == LET cs == path_components(p) IN cs[Len(cs)]

(***************************************************************************)
(* The filesystem: a function from the component sequences of the nodes    *)
(* that exist to [kind: "dir" | "file" | "link", target: the link's path]. *)
(***************************************************************************)
Dir == [kind |-> "dir", target |-> <<>>]
File == [kind |-> "file", target |-> <<>>]
Link(t) == [kind |-> "link", target |-> t]

HomeDir == <<"/", "home", "/", "u">>
TmpDir == <<"/", "tmp">>
VarTmpDir == <<"/", "var", "/", "tmp">>
EtcDir == <<"/", "etc">>
RepoRoot == <<"/", "home", "/", "u", "/", "repo">>
DefaultConfig == <<"/", "home", "/", "u", "/", ".config">>
CustomConfig == <<"/", "tmp", "/", "c">>
Kodegen == <<"kodegen">>
DotKodegen == <<".kodegen">>
Toolset == <<"toolset">>
JsonExt == <<".json">>
NameA == <<"a">>
FileA == <<"a", ".json">>

LocalRoot == join(RepoRoot, DotKodegen)
GlobalRoot == join(DefaultConfig, Kodegen)
CustomRoot == join(CustomConfig, Kodegen)

\* canonicalize: Ok(path), or Err with io::ErrorKind NotFound or another kind
CanonOk(cs) == [ok |-> TRUE, path |-> abs_path(cs), kind |-> ""]
CanonErr(k) == [ok |-> FALSE, path |-> <<>>, kind |-> k]

\* realpath(3): left to right from `cur`, every name must exist, a link is
\* replaced by its target, ".." leaves the directory reached so far
RECURSIVE walk(_, _, _, _)
walk(f, cur, rest, fuel) ==
    IF rest = <<>> THEN CanonOk(cur)
    ELSE LET c == Head(rest)
             r == Tail(rest)
             n == Append(cur, c)
         IN  IF c = DotDot
             THEN walk(f, IF cur = <<>> THEN <<>> ELSE SubSeq(cur, 1, Len(cur) - 1),
                       r, fuel)
             ELSE IF n \notin DOMAIN f THEN CanonErr("NotFound")
             ELSE IF f[n].kind = "link"
                  THEN IF fuel = 0 THEN CanonErr("FilesystemLoop")
                       ELSE walk(f, IF is_absolute(f[n].target) THEN <<>> ELSE cur,
                                 components(f[n].target) \o r, fuel - 1)
             ELSE IF f[n].kind = "file" /\ r # <<>> THEN CanonErr("NotADirectory")
             ELSE walk(f, n, r, fuel)


\* Option<PathBuf> over path strings
NoPath == [some |-> FALSE, path |-> <<>>]
SomePath(p) == [some |-> TRUE, path |-> p]

VARIABLES
    fs,         \* the filesystem
    xdg,        \* std::env::var("XDG_CONFIG_HOME"): [some, path]
    allow,      \* std::env::var("KODEGEN_ALLOW_CUSTOM_PATHS"): [some, path]
    home,       \* dirs::home_dir(): [some, path]
    gitroot,    \* what git::find_git_root() returns to this caller
    op          \* the last call of the resolution API and what it returned

resolveVars == <<fs, xdg, allow, home, gitroot, op>>

vars == <<cacheVars, resolveVars>>

\* the process's working directory, against which a relative path resolves
WorkDir == RepoRoot

\* a path with a trailing separator (or "/.") names a directory
names_directory(p) ==
    \/ p[Len(p)] = Slash
    \/ (Len(p) >= 2 /\ SubSeq(p, Len(p) - 1, Len(p)) = <<Slash, Dot>>)
not_a_directory(p, r) ==
    IF r.ok /\ names_directory(p) /\ components(r.path) # <<>>
         /\ fs[components(r.path)].kind = "file"
    THEN CanonErr("NotADirectory")
    ELSE r

\* std::fs::canonicalize / Path::canonicalize
canonicalize(p) ==
    IF \E i \in 1..Len(p) : p[i] = "NUL" THEN CanonErr("InvalidInput")
    ELSE IF p = <<>> THEN CanonErr("NotFound")
    ELSE IF ~is_absolute(p) /\ components(WorkDir) \notin DOMAIN fs
    THEN CanonErr("NotFound")
    ELSE not_a_directory(p, walk(fs, IF is_absolute(p) THEN <<>>
                                     ELSE components(WorkDir),
                                 components(p), MaxSymlinkHops))

\* the path try_resolve_in_dir canonicalizes (lib.rs lines 170-174) and the
\* boundary it checks against (lines 177-181)
search_path(base_dir, subdir, filename) ==
    IF subdir = <<>> THEN join(base_dir, filename)
    ELSE join(join(base_dir, subdir), filename)
base_path(base_dir, subdir) ==
    IF subdir = <<>> THEN base_dir ELSE join(base_dir, subdir)

\* mutation of within_bounds: the resolved file is returned without the check
within_bounds_unchecked(canonical_file, canonical_base) == TRUE

\* mutation of within_bounds: the prefix test on the strings of the paths
within_bounds_by_string(canonical_file, canonical_base) ==
    StartsWithStr(canonical_file, canonical_base)

\* lib.rs line 197: canonical_file.starts_with(&canonical_base)
within_bounds(canonical_file, canonical_base) ==
    starts_with(canonical_file, canonical_base)

\* lib.rs lines 189-203, given the two canonicalize() results
bounded(canonical_file, canonical_base) ==
    IF ~canonical_file.ok THEN NoPath
    ELSE IF ~canonical_base.ok THEN NoPath
    ELSE IF within_bounds(canonical_file.path, canonical_base.path)
         THEN SomePath(canonical_file.path)
         ELSE NoPath

\* lib.rs: try_resolve_in_dir(base_dir, subdir, filename) -> Option<PathBuf>
try_resolve_in_dir(base_dir, subdir, filename) ==
    bounded(canonicalize(search_path(base_dir, subdir, filename)),
            canonicalize(base_path(base_dir, subdir)))

\* validation.rs lines 139-173, given the two canonicalize() results
verified(canonical_resolved, canonical_base) ==
    IF ~canonical_resolved.ok THEN FALSE
    ELSE IF ~canonical_base.ok THEN FALSE
    ELSE starts_with(canonical_resolved.path, canonical_base.path)

\* validation.rs: verify_within_directory(resolved_path, base_dir) -> bool
verify_within_directory(resolved_path, base_dir) ==
    verified(canonicalize(resolved_path), canonicalize(base_dir))

\* validation.rs: validate_name(name) -> Result<(), String>, the rule broken
\* (the Windows rule 6 is compiled out of this build)
Whitespace == {" ", "TAB", "LF"}
NameOk == "Ok"

\* mutation of validate_name: the backslash rule is left out
validate_name_no_backslash(name) ==
    IF \A i \in 1..Len(name) : name[i] \in Whitespace THEN "empty or whitespace-only"
    ELSE IF Contains(name, <<Slash>>) THEN "contains forward slash"
    ELSE IF Contains(name, DotDot) THEN "contains '..'"
    ELSE IF Contains(name, <<"NUL">>) THEN "contains null bytes"
    ELSE IF StartsWithStr(name, <<Dot>>) THEN "starts with '.'"
    ELSE NameOk

\* mutation of validate_name: the hidden-file rule is tested before the others
validate_name_hidden_first(name) ==
    IF \A i \in 1..Len(name) : name[i] \in Whitespace THEN "empty or whitespace-only"
    ELSE IF StartsWithStr(name, <<Dot>>) THEN "starts with '.'"
    ELSE IF Contains(name, <<Slash>>) THEN "contains forward slash"
    ELSE IF Contains(name, <<"\\">>) THEN "contains backslash"
    ELSE IF Contains(name, DotDot) THEN "contains '..'"
    ELSE IF Contains(name, <<"NUL">>) THEN "contains null bytes"
    ELSE NameOk

validate_name(name) ==
    IF \A i \in 1..Len(name) : name[i] \in Whitespace THEN "empty or whitespace-only"
    ELSE IF Contains(name, <<Slash>>) THEN "contains forward slash"
    ELSE IF Contains(name, <<"\\">>) THEN "contains backslash"
    ELSE IF Contains(name, DotDot) THEN "contains '..'"
    ELSE IF Contains(name, <<"NUL">>) THEN "contains null bytes"
    ELSE IF StartsWithStr(name, <<Dot>>) THEN "starts with '.'"
    ELSE NameOk

\* platform.rs: is_custom_paths_allowed
eq_ignore_ascii_case_true(v) == v \in {<<"true">>, <<"True">>, <<"TRUE">>}
is_custom_paths_allowed ==
    IF allow.some THEN allow.path = <<"1">> \/ eq_ignore_ascii_case_true(allow.path)
    ELSE FALSE

\* mutation of has_suspicious_patterns: the pre-filter finds nothing
has_suspicious_patterns_none(p) == FALSE

\* platform.rs: has_suspicious_patterns
is_control(c) == c \in {"NUL", "TAB", "LF", "ESC"}
has_suspicious_patterns(p) ==
    \/ Contains(p, <<Dot, Dot, Dot, Dot>>)
    \/ Contains(p, <<"NUL">>)
    \/ \E i \in 1..Len(p) : is_control(p[i]) /\ p[i] # "LF" /\ p[i] # "TAB"

\* p.canonicalize().unwrap_or(p)
unwrap_or(c, p) == IF c.ok THEN c.path ELSE p

\* platform.rs lines 122-136, given the canonical boundaries
under_boundaries(canonical, canonical_home, tmp_canonical, var_tmp_canonical) ==
    IF home.some
    THEN \/ starts_with(canonical, canonical_home)
         \/ starts_with(canonical, tmp_canonical)
         \/ starts_with(canonical, var_tmp_canonical)
    ELSE \/ starts_with(canonical, tmp_canonical)
         \/ starts_with(canonical, var_tmp_canonical)

\* mutation of validate_unix_boundaries: every canonical path is allowed
validate_unix_boundaries_open(canonical) == TRUE

\* platform.rs: validate_unix_boundaries, the value of `allowed`
validate_unix_boundaries(canonical) ==
    under_boundaries(canonical,
                     unwrap_or(canonicalize(home.path), home.path),
                     unwrap_or(canonicalize(TmpDir), TmpDir),
                     unwrap_or(canonicalize(VarTmpDir), VarTmpDir))

\* Result<PathBuf> of validate_env_path
EnvOk(p) == [ok |-> TRUE, path |-> p, err |-> ""]
EnvErr(e) == [ok |-> FALSE, path |-> <<>>, err |-> e]

\* platform.rs lines 56-76: the parent exists (parent.exists(), then
\* parent.canonicalize(), agree on one filesystem) and the file name is appended
parent_fallback(path, canonical_parent) ==
    IF ~canonical_parent.ok THEN EnvErr("Parent directory does not exist")
    ELSE IF ~has_file_name(path) THEN EnvErr("Invalid path: no filename")
    ELSE EnvOk(join(canonical_parent.path, file_name(path)))

\* platform.rs lines 51-92: `canonical`, given path.canonicalize()
canonical_or_parent(path, c) ==
    IF c.ok THEN EnvOk(c.path)
    ELSE IF c.kind = "NotFound"
    THEN IF has_parent(path) THEN parent_fallback(path, canonicalize(parent(path)))
         ELSE EnvErr("Path has no parent directory")
    ELSE EnvErr("Failed to canonicalize path")

\* platform.rs lines 94-114: absolute, then inside the platform's boundaries
absolute_and_bounded(canonical) ==
    IF ~canonical.ok THEN canonical
    ELSE IF ~is_absolute(canonical.path) THEN EnvErr("Path must be absolute")
    ELSE IF ~validate_unix_boundaries(canonical.path)
    THEN EnvErr("Path must be under user home directory, /tmp, or /var/tmp")
    ELSE canonical

\* platform.rs: validate_env_path(env_var_name, path_str) -> Result<PathBuf>
validate_env_path(path_str) ==
    IF has_suspicious_patterns(path_str)
    THEN EnvErr("Path contains suspicious patterns")
    ELSE absolute_and_bounded(canonical_or_parent(path_str, canonicalize(path_str)))

\* dirs::config_dir() (crate dirs, Linux): $XDG_CONFIG_HOME when it is set to
\* an absolute path, else $HOME/.config
dirs_config_dir ==
    IF xdg.some /\ is_absolute(xdg.path) THEN SomePath(xdg.path)
    ELSE IF home.some THEN SomePath(join(home.path, <<".config">>))
    ELSE NoPath

\* Result<PathBuf> of the resolution API
PathOk(p) == [ok |-> TRUE, path |-> p, err |-> ""]
PathErr(e) == [ok |-> FALSE, path |-> <<>>, err |-> e]
ErrNoConfigDir == "Cannot determine config directory"

\* platform.rs lines 281-291: `validated`
validated_xdg(r) == IF r.ok THEN SomePath(r.path) ELSE NoPath

\* platform.rs lines 293-299
validated_or_default(validated, default) ==
    IF validated.some THEN PathOk(join(validated.path, Kodegen))
    ELSE IF default.some THEN PathOk(join(default.path, Kodegen))
    ELSE PathErr(ErrNoConfigDir)

\* platform.rs lines 270-300: user_config_dir (not Windows, not macOS)
user_config_dir ==
    IF is_custom_paths_allowed /\ xdg.some THEN PathOk(join(xdg.path, Kodegen))
    ELSE IF xdg.some
    THEN validated_or_default(validated_xdg(validate_env_path(xdg.path)),
                              dirs_config_dir)
    ELSE validated_or_default(NoPath, dirs_config_dir)

\* lib.rs: KodegenConfig::local_config_dir
local_config_dir ==
    IF gitroot.ok THEN PathOk(join(gitroot.path, DotKodegen))
    ELSE PathErr(gitroot.msg)
\* Result<PathBuf> of resolve: the path found, or the error with the
\* searched_paths it lists; `tried` is instrumentation: the search paths the
\* calls of try_resolve_in_dir canonicalized, in order
Resolved(p, searched, tried) ==
    [kind |-> "Ok", path |-> p, searched |-> searched, tried |-> tried, err |-> ""]
NotFound(searched, tried) ==
    [kind |-> "NotFound", path |-> <<>>, searched |-> searched, tried |-> tried,
     err |-> "not found. Searched:"]

\* mutation of Unavailable: the failure of user_config_dir() is reported as
\* a search that found nothing
Unavailable_as_not_found(e, searched, tried) == NotFound(searched, tried)

\* the error of user_config_dir(), propagated by `?`
Unavailable(e, searched, tried) ==
    [kind |-> "EnvironmentUnavailable", path |-> <<>>, searched |-> searched,
     tried |-> tried, err |-> e]

\* mutation of push_searched: the path is not recorded
push_searched_dropped(searched, path) == searched

\* searched_paths.push(path.display().to_string())
push_searched(searched, path) == Append(searched, path)

\* the candidate under a root: root.join("toolset").join(&filename) in
\* toolset.rs, root.join(filename) in resolve_config_file
candidate_path(root, subdir, filename) ==
    IF subdir = <<>> THEN join(root, filename)
    ELSE join(join(root, subdir), filename)

\* mutation of local_lookup: the local root is not searched
local_lookup_skipped(local_dir, subdir, filename) == NoPath

\* the lookup in the `if let Ok(local_dir)` block
local_lookup(local_dir, subdir, filename) ==
    IF local_dir.ok THEN try_resolve_in_dir(local_dir.path, subdir, filename)
    ELSE NoPath

\* the last step: the lookup under the user root decides
user_step(searched, tried, user_hit) ==
    IF user_hit.some THEN Resolved(user_hit.path, searched, tried)
    ELSE NotFound(searched, tried)

\* `let user_dir = user_config_dir()?`, then the user candidate
user_search(subdir, filename, searched, tried, user_dir) ==
    IF ~user_dir.ok THEN Unavailable(user_dir.err, searched, tried)
    ELSE user_step(push_searched(searched,
                                 candidate_path(user_dir.path, subdir, filename)),
                   Append(tried, search_path(user_dir.path, subdir, filename)),
                   try_resolve_in_dir(user_dir.path, subdir, filename))

\* mutation of local_step: user_config_dir()? is evaluated before the local
\* hit is returned
local_step_user_first(subdir, filename, searched, tried, local_hit) ==
    IF local_hit.some /\ user_config_dir.ok
    THEN Resolved(local_hit.path, searched, tried)
    ELSE user_search(subdir, filename, searched, tried, user_config_dir)

\* after the local block: a local hit returns, else the user root is searched
local_step(subdir, filename, searched, tried, local_hit) ==
    IF local_hit.some THEN Resolved(local_hit.path, searched, tried)
    ELSE user_search(subdir, filename, searched, tried, user_config_dir)

\* the local block: the candidate is recorded and looked up only when
\* local_config_dir() is Ok
local_search(subdir, filename, local_dir) ==
    local_step(subdir, filename,
               IF local_dir.ok
               THEN push_searched(<<>>, candidate_path(local_dir.path, subdir, filename))
               ELSE <<>>,
               IF local_dir.ok
               THEN <<search_path(local_dir.path, subdir, filename)>>
               ELSE <<>>,
               local_lookup(local_dir, subdir, filename))

\* toolset.rs: resolve(name)
toolset_resolve(name) == local_search(Toolset, name \o JsonExt, local_config_dir)

\* lib.rs: KodegenConfig::resolve_config_file(filename)
resolve_config_file(filename) == local_search(<<>>, filename, local_config_dir)

(***************************************************************************)
(* The inputs: names, environments and filesystem layouts.                 *)
(***************************************************************************)
NameChars == {"a", Dot, Slash}
Names == UNION {[1..k -> NameChars] : k \in 1..MaxNameLen}

\* the values of XDG_CONFIG_HOME: unset, a directory under /tmp, a directory
\* outside every boundary, a relative path
XdgValues == {NoPath, SomePath(CustomConfig), SomePath(EtcDir), SomePath(<<"rel">>)}
AllowValues == {NoPath, SomePath(<<"1">>), SomePath(<<"True">>), SomePath(<<"0">>)}
HomeValues == {NoPath, SomePath(HomeDir)}

\* find_git_root() as the resolver sees it
GitOk == [ok |-> TRUE, path |-> RepoRoot, msg |-> ""]
GitErr == [ok |-> FALSE, path |-> <<>>, msg |-> MsgNotInRepo]

\* the nodes every layout has
Skeleton ==
    {  <<components(HomeDir), Dir>>, <<<< <<"home">> >>, Dir>>,
       <<components(DefaultConfig), Dir>>,
       <<components(TmpDir), Dir>>, <<<< <<"var">> >>, Dir>>,
       <<components(VarTmpDir), Dir>>,
       <<components(CustomConfig), Dir>>, <<components(CustomRoot), Dir>>,
       <<components(join(CustomRoot, Toolset)), Dir>>,
       <<components(join(join(CustomRoot, Toolset), FileA)), File>>,
       <<components(join(CustomRoot, NameA)), File>>,
       <<components(EtcDir), Dir>>,
       <<components(join(EtcDir, FileA)), File>>,
       <<components(join(EtcDir, NameA)), File>>,
       <<components(RepoRoot), Dir>>,
       << <<FileA>>, File>>, << <<NameA>>, File>> }

\* what a configuration root holds
Layouts == {"absent", "empty", "files", "escape", "dangling", "subdirlink",
            "nested", "inner"}
\* the layouts of the bounded lookup alone: with a sibling directory whose
\* name extends the name of the base
FsLayouts == Layouts \cup {"sibling"}
Subtree(R, l) ==
    LET r == components(R)
        t == Append(r, Toolset)
    IN  CASE l = "absent" -> {}
          [] l = "empty" -> {<<r, Dir>>}
          [] l = "files" ->
                {<<r, Dir>>, <<t, Dir>>, <<Append(t, FileA), File>>,
                 <<Append(r, NameA), File>>}
          [] l = "escape" ->
                {<<r, Dir>>, <<t, Dir>>,
                 <<Append(t, FileA), Link(join(EtcDir, FileA))>>,
                 <<Append(r, NameA), Link(join(EtcDir, NameA))>>}
          [] l = "dangling" ->
                {<<r, Dir>>, <<t, Dir>>,
                 <<Append(t, FileA), Link(join(EtcDir, <<"gone">>))>>,
                 <<Append(r, NameA), Link(join(EtcDir, <<"gone">>))>>}
          [] l = "subdirlink" ->
                {<<r, Dir>>, <<t, Link(EtcDir)>>, <<Append(r, NameA), File>>}
          [] l = "nested" ->
                {<<r, Dir>>, <<t, Dir>>, <<Append(t, NameA), Dir>>,
                 <<Append(Append(t, NameA), FileA), File>>,
                 <<Append(r, NameA), Dir>>,
                 <<Append(Append(r, NameA), NameA), File>>}
          [] l = "sibling" ->
                {<<r, Dir>>, <<t, Dir>>,
                 <<components(R \o <<"2">>), Dir>>,
                 <<Append(components(R \o <<"2">>), NameA), File>>,
                 <<Append(r, Toolset \o <<"2">>), Dir>>,
                 <<Append(Append(r, Toolset \o <<"2">>), FileA), File>>,
                 <<Append(t, FileA),
                   Link(join(join(R, Toolset \o <<"2">>), FileA))>>,
                 <<Append(r, NameA), Link(join(R \o <<"2">>, NameA))>>}
          [] OTHER ->
                {<<r, Dir>>, <<t, Dir>>,
                 <<Append(t, FileA), Link(join(R, NameA))>>,
                 <<Append(r, NameA), File>>}

MkFs(nodes) == [n \in {e[1] : e \in nodes} |-> (CHOOSE e \in nodes : e[1] = n)[2]]

NoOp == [fn |-> "none"]

\* the cache and its threads at rest
IdleCache ==
    /\ cache = {}
    /\ rw = [writer |-> NoThread, readers |-> {}]
    /\ pc = [t \in Threads |-> "idle"]
    /\ key = [t \in Threads |-> NoCwd]
    /\ result = [t \in Threads |-> NoResult]
    /\ cwd = NoCwd
    /\ repo = [d \in Dirs |-> "none"]
    /\ calls = 0
    /\ envChanges = 0
    /\ walks = [d \in Dirs |-> 0]
    /\ clears = 0
    /\ missed = [t \in Threads |-> FALSE]
    /\ doneEpoch = [t \in Threads |-> 0]
    /\ seen = [d \in Dirs |-> {}]

\* the resolver at rest
IdleResolve ==
    /\ fs = MkFs(Skeleton)
    /\ xdg = NoPath
    /\ allow = NoPath
    /\ home = SomePath(HomeDir)
    /\ gitroot = GitErr
    /\ op = NoOp

InitLayout ==
    \E ll \in Layouts, gl \in Layouts :
        fs = MkFs(Skeleton \cup Subtree(LocalRoot, ll) \cup Subtree(GlobalRoot, gl))

InitResolve ==
    /\ InitLayout
    /\ xdg \in XdgValues
    /\ allow \in AllowValues
    /\ home \in HomeValues
    /\ gitroot \in {GitOk, GitErr}
    /\ op = NoOp

InitFs ==
    /\ \E ll \in FsLayouts, gl \in FsLayouts :
          fs = MkFs(Skeleton \cup Subtree(LocalRoot, ll) \cup Subtree(GlobalRoot, gl))
    /\ xdg = NoPath
    /\ allow = NoPath
    /\ home = SomePath(HomeDir)
    /\ gitroot = GitOk
    /\ op = NoOp

\* KodegenConfig::resolve_toolset(name)
ResolveToolset(name) ==
    /\ op = NoOp
    /\ op' = [fn |-> "resolve_toolset", name |-> name, subdir |-> Toolset,
              filename |-> name \o JsonExt, res |-> toolset_resolve(name)]
    /\ UNCHANGED <<fs, xdg, allow, home, gitroot>>

\* KodegenConfig::resolve_config_file(filename)
ResolveConfigFile(filename) ==
    /\ op = NoOp
    /\ op' = [fn |-> "resolve_config_file", name |-> filename, subdir |-> <<>>,
              filename |-> filename, res |-> resolve_config_file(filename)]
    /\ UNCHANGED <<fs, xdg, allow, home, gitroot>>

\* KodegenConfig::user_config_dir()
UserConfigDir ==
    /\ op = NoOp
    /\ op' = [fn |-> "user_config_dir", res |-> user_config_dir]
    /\ UNCHANGED <<fs, xdg, allow, home, gitroot>>

\* try_resolve_in_dir(base_dir, subdir, filename)
TryResolveInDir(base_dir, subdir, filename) ==
    /\ op = NoOp
    /\ op' = [fn |-> "try_resolve_in_dir", base |-> base_dir, subdir |-> subdir,
              name |-> filename,
              res |-> try_resolve_in_dir(base_dir, subdir, filename)]
    /\ UNCHANGED <<fs, xdg, allow, home, gitroot>>

ResolveNext ==
    \/ \E name \in Names : ResolveToolset(name)
    \/ \E filename \in Names : ResolveConfigFile(filename)
    \/ UserConfigDir

FsNext ==
    \/ \E base_dir \in {LocalRoot, GlobalRoot}, filename \in Names :
          TryResolveInDir(base_dir, <<>>, filename)
    \/ \E base_dir \in {LocalRoot, GlobalRoot}, name \in Names :
          TryResolveInDir(base_dir, Toolset, name \o JsonExt)

Next == CacheNext /\ UNCHANGED resolveVars

Init == InitCache /\ IdleResolve

\* the threads of the process over the git-root cache
Spec == Init /\ [][Next]_vars

\* one call of the precedence resolver, for every environment and layout
ResolveInit == IdleCache /\ InitResolve
ResolveSpec == ResolveInit /\ [][ResolveNext /\ UNCHANGED cacheVars]_vars

\* one bounded lookup, for every layout
FsInit == IdleCache /\ InitFs
FsSpec == FsInit /\ [][FsNext /\ UNCHANGED cacheVars]_vars


(***************************************************************************)
(* PART 3.  The validators as functions of their input: validate_name on   *)
(* both builds, validate_env_path on the Unix and the Windows policy.      *)
(***************************************************************************)
\* validation.rs: WINDOWS_RESERVED_NAMES
WINDOWS_RESERVED_NAMES ==
    {<<"C", "O", "N">>, <<"P", "R", "N">>, <<"A", "U", "X">>, <<"N", "U", "L">>}
    \cup {<<"C", "O", "M", d>> : d \in {"1", "2", "3", "4", "5", "6", "7", "8", "9"}}
    \cup {<<"L", "P", "T", d>> : d \in {"1", "2", "3", "4", "5", "6", "7", "8", "9"}}

\* char::to_uppercase, str::to_uppercase over the letters the names use
upper_char(c) ==
    CASE c = "a" -> "A" [] c = "c" -> "C" [] c = "o" -> "O" [] c = "n" -> "N"
      [] c = "m" -> "M" [] c = "x" -> "X" [] c = "t" -> "T" [] c = "u" -> "U"
      [] c = "l" -> "L" [] c = "p" -> "P" [] c = "r" -> "R"
      [] OTHER -> c
to_uppercase(s) == [i \in 1..Len(s) |-> upper_char(s[i])]

\* str::find('.'): the index of the first '.', 0 when there is none
RECURSIVE find_dot(_, _)
find_dot(s, i) ==
    IF i > Len(s) THEN 0 ELSE IF s[i] = Dot THEN i ELSE find_dot(s, i + 1)

\* validation.rs lines 95-101: the upper-cased name before its first '.'
base_name_upto(upper_name, pos) ==
    IF pos > 0 THEN SubSeq(upper_name, 1, pos - 1) ELSE upper_name
base_name(name) == base_name_upto(to_uppercase(name), find_dot(name, 1))

\* the result of rule 6, reached when rules 1-5 passed
reserved_or_ok(name) ==
    IF base_name(name) \in WINDOWS_RESERVED_NAMES
    THEN "is a Windows reserved device name"
    ELSE NameOk

\* rules 1-5 decided, or rule 6 decides
first_error_or_reserved(name, rules_1_5) ==
    IF rules_1_5 # NameOk THEN rules_1_5 ELSE reserved_or_ok(name)

\* validation.rs: validate_name as built for target_os = "windows"
validate_name_windows(name) == first_error_or_reserved(name, validate_name(name))

\* the names validate_name is given: every string of at most MaxNameLen
\* characters over ValidateChars, and the names of the documentation
ValidateChars == {"a", Slash, "\\", Dot, "NUL", " ", "TAB"}
Core == <<"c", "o", "r", "e">>
MyToolV2 == <<"m", "y", "-", "t", "o", "o", "l", "_", "v", "2">>
Toolset2 == <<"t", "o", "o", "l", "s", "e", "t", "2">>
DocNames ==
    {Core, MyToolV2, Toolset2,
     <<Dot, Dot, Slash, "x">>, <<Dot, "h", "i", "d">>,
     <<"C", "O", "N">>, <<"c", "o", "n">>, <<"c", "o", "n", Dot, "t", "x", "t">>,
     <<"C", "O", "M", "1">>, <<"C", "O", "M", "0">>, <<"C", "O", "N", "X">>,
     <<"a", Dot, "C", "O", "N">>, <<"N", "U", "L">>, <<"n", "u", "l">>,
     <<"C", "O", "N", Slash>>, <<" ", "C", "O", "N">>}
ValidateNames ==
    UNION {[1..k -> ValidateChars] : k \in 0..MaxNameLen} \cup DocNames

\* validate_name(name) on the Unix build
ValidateName(name) ==
    /\ op = NoOp
    /\ op' = [fn |-> "validate_name", os |-> "unix", name |-> name,
              res |-> validate_name(name)]
    /\ UNCHANGED <<fs, xdg, allow, home, gitroot>>

\* validate_name(name) on the Windows build
ValidateNameWindows(name) ==
    /\ op = NoOp
    /\ op' = [fn |-> "validate_name", os |-> "windows", name |-> name,
              res |-> validate_name_windows(name)]
    /\ UNCHANGED <<fs, xdg, allow, home, gitroot>>

NameNext ==
    \/ \E name \in ValidateNames : ValidateName(name)
    \/ \E name \in ValidateNames : ValidateNameWindows(name)

\* one call of validate_name, for every name
NameInit == IdleCache /\ IdleResolve
NameSpec == NameInit /\ [][NameNext /\ UNCHANGED cacheVars]_vars

\* the raw values validate_env_path is given: paths of the layouts below, and
\* every string of at most MaxNameLen characters over EnvChars
EnvChars == {Slash, Dot, "tmp", "NUL", "TAB", "ESC"}
Config2 == join(HomeDir, <<".config2">>)
OutLink == join(HomeDir, <<"out">>)
DanglingLink == join(HomeDir, <<"dangling">>)
PrivateTmp == <<"/", "private", "/", "tmp">>
EnvPaths ==
    {EtcDir, Config2, DefaultConfig, HomeDir, TmpDir, CustomConfig,
     join(TmpDir, <<"new">>), join(VarTmpDir, <<"new">>),
     OutLink, join(OutLink, <<"new">>), DanglingLink,
     join(join(HomeDir, <<"gone">>), <<"new">>),
     <<"rel">>, <<"rel", Slash, "x">>, <<".kodegen">>,
     HomeDir \o <<Slash, Dot, Dot, Slash, Dot, Dot, Slash, "etc">>,
     HomeDir \o <<Slash, Dot, Dot, Dot, Dot>>,
     TmpDir \o <<Slash, "LF", "TAB">>, TmpDir \o <<Slash, "ESC">>,
     TmpDir \o <<Slash, Dot, Dot, Dot>>,
     <<Slash, "home", Slash, "u2">>, <<Slash, "tmpx">>,
     join(join(EtcDir, NameA), <<"new">>)}
    \cup UNION {[1..k -> EnvChars] : k \in 0..MaxNameLen}

\* the filesystems validate_env_path runs on: an ordinary one, one whose home
\* directory holds links leading out of it, one whose /tmp is a link, one
\* whose home directory (and so the working directory) does not exist
EnvLayouts == {"plain", "links", "tmplink", "homeless"}
EnvTree(l) ==
    LET root == {<<components(EtcDir), Dir>>,
                 <<components(join(EtcDir, NameA)), File>>,
                 << << <<"var">> >>, Dir>>, <<components(VarTmpDir), Dir>>,
                 << << <<"home">> >>, Dir>>}
        homedir == {<<components(HomeDir), Dir>>,
                    <<components(DefaultConfig), Dir>>,
                    <<components(RepoRoot), Dir>>}
        tmp == {<<components(TmpDir), Dir>>, <<components(CustomConfig), Dir>>}
    IN  CASE l = "plain" -> root \cup homedir \cup tmp
          [] l = "links" ->
                root \cup homedir \cup tmp \cup
                {<<components(OutLink), Link(EtcDir)>>,
                 <<components(DanglingLink), Link(join(EtcDir, <<"gone">>))>>}
          [] l = "tmplink" ->
                root \cup homedir \cup
                {<<components(TmpDir), Link(PrivateTmp)>>,
                 << << <<"private">> >>, Dir>>, <<components(PrivateTmp), Dir>>,
                 <<components(join(PrivateTmp, <<"c">>)), Dir>>}
          [] OTHER -> root \cup tmp

InitEnv ==
    /\ \E l \in EnvLayouts : fs = MkFs(EnvTree(l))
    /\ xdg = NoPath
    /\ allow = NoPath
    /\ home \in HomeValues
    /\ gitroot = GitErr
    /\ op = NoOp

\* validate_env_path("XDG_CONFIG_HOME", path_str) on a Unix build
ValidateEnvPath(path_str) ==
    /\ op = NoOp
    /\ op' = [fn |-> "validate_env_path", os |-> "unix", path |-> path_str,
              res |-> validate_env_path(path_str)]
    /\ UNCHANGED <<fs, xdg, allow, home, gitroot>>

(***************************************************************************)
(* The Windows policy.  A Windows path is a string over the separator "\\" *)
(* and names; "C:" is the drive, "?" and "." the markers of device paths.  *)
(***************************************************************************)
Backslash == "\\"

\* Path::components on Windows: the names between separators
RECURSIVE win_split(_, _, _)
win_split(s, cur, acc) ==
    IF s = <<>> THEN (IF cur = <<>> THEN acc ELSE Append(acc, cur))
    ELSE IF Head(s) = Backslash
         THEN win_split(Tail(s), <<>>, IF cur = <<>> THEN acc ELSE Append(acc, cur))
         ELSE win_split(Tail(s), Append(cur, Head(s)), acc)
win_components(p) == win_split(p, <<>>, <<>>)

\* Path::starts_with on Windows: whole components, the prefix included
win_starts_with(p, base) ==
    /\ Len(win_components(base)) <= Len(win_components(p))
    /\ SubSeq(win_components(p), 1, Len(win_components(base))) = win_components(base)

\* platform.rs lines 176-185: std::env::var(..).ok().and_then(canonicalize.ok())
\* .map(starts_with).unwrap_or(false), for the canonical value of the variable
under_env_dir(canonical, canonical_dir) ==
    IF canonical_dir.some THEN win_starts_with(canonical, canonical_dir.path)
    ELSE FALSE

ErrUnc == "UNC paths not allowed"
ErrDevice == "Device paths not allowed"
ErrAppData == "Path must be under APPDATA or LOCALAPPDATA"

\* platform.rs: validate_windows_boundaries(canonical, ..), given the
\* canonical %APPDATA% and %LOCALAPPDATA% (None: unset or not canonicalizable)
validate_windows_boundaries(canonical, canonical_appdata, canonical_local) ==
    IF StartsWithStr(canonical, <<Backslash, Backslash>>) THEN ErrUnc
    ELSE IF \/ StartsWithStr(canonical, <<Backslash, Backslash, "?", Backslash>>)
            \/ StartsWithStr(canonical, <<Backslash, Backslash, Dot, Backslash>>)
         THEN ErrDevice
    ELSE IF ~(\/ under_env_dir(canonical, canonical_appdata)
              \/ under_env_dir(canonical, canonical_local))
         THEN ErrAppData
    ELSE NameOk

\* canonical paths of a Windows host, as std::fs::canonicalize returns them
\* (verbatim, \\?\C:\..) and in the other forms the policy names
Roaming == <<"C:", Backslash, "Users", Backslash, "u", Backslash, "Roaming">>
Local == <<"C:", Backslash, "Users", Backslash, "u", Backslash, "Local">>
Verbatim(p) == <<Backslash, Backslash, "?", Backslash>> \o p
WinPaths ==
    {Roaming, Roaming \o <<Backslash, "kodegen">>, Local \o <<Backslash, "kodegen">>,
     <<"C:", Backslash, "Windows">>,
     <<"C:", Backslash, "Users", Backslash, "u", Backslash, "Roaming2">>,
     Verbatim(Roaming), Verbatim(Roaming \o <<Backslash, "kodegen">>),
     Verbatim(<<"C:", Backslash, "Windows">>),
     <<Backslash, Backslash, Dot, Backslash, "COM1">>,
     <<Backslash, Backslash, "server", Backslash, "share">>,
     <<Backslash, Backslash, "server", Backslash, "share", Backslash, "kodegen">>,
     Verbatim(<<"UNC", Backslash, "server", Backslash, "share">>)}
WinEnvDirs(p) == {NoPath, SomePath(p), SomePath(Verbatim(p))}

\* validate_env_path on a Windows build, from the boundary check on
\* (platform.rs lines 109-112): the error of validate_windows_boundaries is
\* returned by `?`
ValidateWindowsBoundaries(canonical, canonical_appdata, canonical_local) ==
    /\ op = NoOp
    /\ op' = [fn |-> "validate_env_path", os |-> "windows", path |-> canonical,
              appdata |-> canonical_appdata, localappdata |-> canonical_local,
              res |-> validate_windows_boundaries(canonical, canonical_appdata,
                                                  canonical_local)]
    /\ UNCHANGED <<fs, xdg, allow, home, gitroot>>

EnvNext ==
    \/ \E path_str \in EnvPaths : ValidateEnvPath(path_str)
    \/ \E canonical \in WinPaths, canonical_appdata \in WinEnvDirs(Roaming),
          canonical_local \in WinEnvDirs(Local) :
            ValidateWindowsBoundaries(canonical, canonical_appdata, canonical_local)

\* one call of validate_env_path, for every raw value, layout and home
EnvInit == IdleCache /\ InitEnv
EnvSpec == EnvInit /\ [][EnvNext /\ UNCHANGED cacheVars]_vars

(***************************************************************************)
(* Part 5: the category-to-port table (constants.rs) and the three tests   *)
(* of the module, which the test harness runs as concurrent threads.       *)
(***************************************************************************)
PORT_BROWSER == 30438
PORT_CITESCRAPE == 30439
PORT_CLAUDE_AGENT == 30440
PORT_CONFIG == 30441
PORT_DATABASE == 30442
PORT_FILESYSTEM == 30443
PORT_GIT == 30444
PORT_GITHUB == 30445
PORT_INTROSPECTION == 30446
PORT_PROCESS == 30447
PORT_PROMPT == 30448
PORT_REASONER == 30449
PORT_SEQUENTIAL_THINKING == 30450
PORT_TERMINAL == 30451
PORT_CANDLE_AGENT == 30452
PORT_MIN == 30438
PORT_MAX == 30452

\* constants.rs: CATEGORY_PORTS, each category by its name
CATEGORY_PORTS ==
    << <<"browser", PORT_BROWSER>>,
       <<"candle_agent", PORT_CANDLE_AGENT>>,
       <<"citescrape", PORT_CITESCRAPE>>,
       <<"claude_agent", PORT_CLAUDE_AGENT>>,
       <<"config", PORT_CONFIG>>,
       <<"database", PORT_DATABASE>>,
       <<"filesystem", PORT_FILESYSTEM>>,
       <<"git", PORT_GIT>>,
       <<"github", PORT_GITHUB>>,
       <<"introspection", PORT_INTROSPECTION>>,
       <<"process", PORT_PROCESS>>,
       <<"prompt", PORT_PROMPT>>,
       <<"reasoner", PORT_REASONER>>,
       <<"sequential_thinking", PORT_SEQUENTIAL_THINKING>>,
       <<"terminal", PORT_TERMINAL>> >>

\* Vec::sort_unstable on u16: the ascending arrangement of the elements
RECURSIVE insert_sorted(_, _)
insert_sorted(x, s) ==
    IF s = <<>> THEN <<x>>
    ELSE IF x <= Head(s) THEN <<x>> \o s
    ELSE <<Head(s)>> \o insert_sorted(x, Tail(s))
RECURSIVE sort_unstable(_)
sort_unstable(s) ==
    IF s = <<>> THEN <<>> ELSE insert_sorted(Head(s), sort_unstable(Tail(s)))

\* Vec::dedup: consecutive repeated elements are removed
RECURSIVE dedup(_)
dedup(s) ==
    IF Len(s) < 2 THEN s
    ELSE IF s[1] = s[2] THEN dedup(Tail(s))
    ELSE <<s[1]>> \o dedup(Tail(s))

\* the three tests before their first step
TestsReady ==
    [fn |-> "tests", count |-> "ready", range |-> "running", checked |-> 0,
     uniq |-> "collect", ports |-> <<>>, original_len |-> 0]

\* the harness starts the tests of the module
StartTests ==
    /\ op = NoOp
    /\ op' = TestsReady
    /\ UNCHANGED <<fs, xdg, allow, home, gitroot>>

\* tests::test_category_count: assert_eq!(CATEGORY_PORTS.len(), 14)
TestCategoryCount ==
    /\ op.fn = "tests"
    /\ op.count = "ready"
    /\ op' = [op EXCEPT !.count = IF Len(CATEGORY_PORTS) = 14
                                  THEN "passed" ELSE "panicked"]
    /\ UNCHANGED <<fs, xdg, allow, home, gitroot>>

\* tests::test_port_range: one turn of the loop over the table
TestPortRange ==
    /\ op.fn = "tests"
    /\ op.range = "running"
    /\ op' = IF op.checked = Len(CATEGORY_PORTS)
             THEN [op EXCEPT !.range = "passed"]
             ELSE IF /\ CATEGORY_PORTS[op.checked + 1][2] >= PORT_MIN
                     /\ CATEGORY_PORTS[op.checked + 1][2] <= PORT_MAX
                  THEN [op EXCEPT !.checked = op.checked + 1]
                  ELSE [op EXCEPT !.range = "panicked"]
    /\ UNCHANGED <<fs, xdg, allow, home, gitroot>>

\* tests::test_port_uniqueness: collect, sort_unstable, dedup, assert_eq!
TestPortUniqueness ==
    /\ op.fn = "tests"
    /\ op.uniq \in {"collect", "sort", "dedup", "assert"}
    /\ op' = IF op.uniq = "collect"
             THEN [op EXCEPT !.ports = [i \in 1..Len(CATEGORY_PORTS) |->
                                            CATEGORY_PORTS[i][2]],
                             !.original_len = Len(CATEGORY_PORTS),
                             !.uniq = "sort"]
             ELSE IF op.uniq = "sort"
             THEN [op EXCEPT !.ports = sort_unstable(op.ports), !.uniq = "dedup"]
             ELSE IF op.uniq = "dedup"
             THEN [op EXCEPT !.ports = dedup(op.ports), !.uniq = "assert"]
             ELSE [op EXCEPT !.uniq = IF Len(op.ports) = op.original_len
                                      THEN "passed" ELSE "panicked"]
    /\ UNCHANGED <<fs, xdg, allow, home, gitroot>>

PortNext ==
    \/ StartTests
    \/ TestCategoryCount
    \/ TestPortRange
    \/ TestPortUniqueness

\* one run of the tests of constants.rs
PortInit == IdleCache /\ IdleResolve
PortSpec == PortInit /\ [][PortNext /\ UNCHANGED cacheVars]_vars

(***************************************************************************)
(* Part 6: scheduling of the threads over the git-root cache.  A thread    *)
(* that can take a step of its call takes it (the discovery walk           *)
(* terminates), and parking_lot's RwLock is fair: a thread whose request   *)
(* can be granted again and again is granted the lock.                     *)
(***************************************************************************)
\* the steps of a call that wait for nothing
Proceed(t) ==
    \/ FastPathHit(t)
    \/ FastPathMiss(t)
    \/ RecheckHit(t)
    \/ RecheckMiss(t)
    \/ Walk(t)
    \/ Insert(t)
    \/ Return(t)
    \/ Clear(t)

\* the steps that wait for GIT_ROOT_CACHE's lock
Acquire(t) ==
    \/ ReadLock(t)
    \/ WriteLock(t)
    \/ ClearLock(t)

Fairness ==
    \A t \in Threads :
        /\ WF_vars(Proceed(t) /\ UNCHANGED resolveVars)
        /\ SF_vars(Acquire(t) /\ UNCHANGED resolveVars)

LiveSpec == Init /\ [][Next]_vars /\ Fairness
(***************************************************************************)
(* Claims about the git-root cache, checked under Spec.                    *)
(***************************************************************************)

\* C1: threads that call find_git_root at the same time from one working
\* directory with no cache entry (each missed on the fast path, no clear in
\* between) all return the same result, and the discovery walk ran exactly once.
C1_ConcurrentSameResultOneWalk ==
    \A t1, t2 \in Threads :
        ( /\ t1 # t2
          /\ pc[t1] = "done" /\ pc[t2] = "done"
          /\ missed[t1] /\ missed[t2]
          /\ key[t1] = key[t2]
          /\ doneEpoch[t1] = clears /\ doneEpoch[t2] = clears )
        => /\ result[t1] = result[t2]
           /\ walks[key[t1]] = 1

\* C2: all the find_git_root calls made from one working directory with no
\* clear between them return identical results, the same path or the same error.
C2_SameDirSameResult ==
    \A d \in Dirs : \A r1, r2 \in seen[d] : r1 = r2

\* C9: the cache holds at most one entry per key, and a step that is not the
\* clear of clear_git_root_cache keeps every entry with its value.
C9_OneEntryPerKeyImmutable ==
    [][ /\ \A e1, e2 \in cache' : e1[1] = e2[1] => e1 = e2
        /\ (\A t \in Threads : ~(pc[t] = "clearing" /\ pc'[t] = "idle"))
              => cache \subseteq cache' ]_vars

\* C9 witness: two calls for one key finished in one epoch, both after a miss on
\* the fast path, so one of them met the other's entry in the double check.
C9_Witness ==
    \E t1, t2 \in Threads :
        /\ t1 # t2
        /\ pc[t1] = "done" /\ pc[t2] = "done"
        /\ missed[t1] /\ missed[t2]
        /\ key[t1] = key[t2]
        /\ doneEpoch[t1] = clears /\ doneEpoch[t2] = clears
        /\ cache_has(cache, key[t1])

\* C10: a call whose walk failed holds the entry <<key, None>> in the cache when it
\* releases the write lock, and a call that meets that entry returns the
\* not-in-a-repository error and runs no walk.
C10_FailureMemoized ==
    [][ \A t \in Threads :
          /\ (pc[t] = "ret" /\ pc'[t] = "done" /\ ~result[t].ok)
                => <<key[t], None>> \in cache
          /\ (pc[t] \in {"fast", "recheck"} /\ pc'[t] # pc[t]
                /\ <<key[t], None>> \in cache)
                => /\ pc'[t] = "done"
                   /\ result'[t] = Err(MsgNotInRepo, key[t])
                   /\ walks' = walks
                   /\ cache' = cache ]_vars

\* C10 witness: a call returned the not-in-a-repository error from the fast path,
\* from the negative entry an earlier failed walk left.
C10_Witness ==
    \E t \in Threads :
        /\ pc[t] = "done" /\ key[t] \in Dirs /\ ~missed[t]
        /\ result[t] = Err(MsgNotInRepo, key[t])
        /\ <<key[t], None>> \in cache


(***************************************************************************)
(* Claims about the precedence resolver and the bounded lookup.            *)
(***************************************************************************)
Resolvers == {"resolve_toolset", "resolve_config_file"}

\* C3: resolve_toolset(name) validates name with validate_name before any
\* search: a name that validate_name rejects (a path separator, "..", NUL, a
\* leading ".") ends in an invalid-name error, and no candidate path was
\* canonicalized or returned.
C3_InvalidNameRejected ==
    (op.fn = "resolve_toolset" /\ validate_name(op.name) # NameOk)
        => /\ op.res.kind = "InvalidName"
           /\ op.res.tried = <<>>
           /\ op.res.path = <<>>

\* C4: the root user_config_dir returns is never built from an
\* XDG_CONFIG_HOME value that validate_env_path did not accept: a root that is
\* the variable's value (or its validated form) joined with "kodegen" comes
\* with an accepted value.
C4_RootFromValidatedOverride ==
    (op.fn = "user_config_dir" /\ op.res.ok /\ xdg.some
       /\ op.res.path = join(xdg.path, Kodegen))
        => validate_env_path(xdg.path).ok

\* C5: a lookup through a symbolic link of the base directory whose target
\* resolves outside the base (or does not resolve) returns nothing, and a
\* lookup never returns a path outside the canonical base.
C5_SymlinkEscapeNotFound ==
    op.fn = "try_resolve_in_dir" =>
        LET cb == canonicalize(base_path(op.base, op.subdir))
            n == Append(components(cb.path), op.name)
        IN  /\ op.res.some => cb.ok /\ starts_with(op.res.path, cb.path)
            /\ (/\ cb.ok
                /\ n \in DOMAIN fs
                /\ fs[n].kind = "link"
                /\ ~(/\ canonicalize(fs[n].target).ok
                     /\ starts_with(canonicalize(fs[n].target).path, cb.path)))
                  => op.res = NoPath

\* the lookup went through a link of the base whose target is a file outside it
C5_Witness ==
    /\ op.fn = "try_resolve_in_dir"
    /\ LET cb == canonicalize(base_path(op.base, op.subdir))
           n == Append(components(cb.path), op.name)
       IN  /\ cb.ok
           /\ n \in DOMAIN fs
           /\ fs[n].kind = "link"
           /\ canonicalize(fs[n].target).ok
           /\ ~starts_with(canonicalize(fs[n].target).path, cb.path)
    /\ op.res = NoPath

\* C6: when the bounded lookup under a discoverable local root finds the
\* resource, resolve returns that local path, whatever the global root holds;
\* a path found under the global root is returned only when the local root is
\* not discoverable or the lookup under it found nothing.
C6_LocalPrecedesGlobal ==
    op.fn \in Resolvers =>
        LET found == IF gitroot.ok
                     THEN try_resolve_in_dir(join(gitroot.path, DotKodegen),
                                             op.subdir, op.filename)
                     ELSE NoPath
        IN  /\ found.some => op.res.kind = "Ok" /\ op.res.path = found.path
            /\ (op.res.kind = "Ok" /\ ~found.some)
                  => /\ user_config_dir.ok
                     /\ SomePath(op.res.path) =
                            try_resolve_in_dir(user_config_dir.path,
                                               op.subdir, op.filename)

\* the resource is under both roots and the local one was returned
C6_Witness ==
    /\ op.fn \in Resolvers
    /\ gitroot.ok /\ user_config_dir.ok
    /\ try_resolve_in_dir(user_config_dir.path, op.subdir, op.filename).some
    /\ try_resolve_in_dir(LocalRoot, op.subdir, op.filename).some
    /\ op.res.kind = "Ok"
    /\ starts_with(op.res.path, LocalRoot)
    /\ ~starts_with(try_resolve_in_dir(user_config_dir.path, op.subdir,
                                       op.filename).path, LocalRoot)

\* C7 as stated: the search trail of a NotFound error has exactly two
\* entries, the local candidate first, the global candidate second.
C7_TrailHasTwoEntries ==
    (op.fn \in Resolvers /\ op.res.kind = "NotFound")
        => /\ Len(op.res.searched) = 2
           /\ gitroot.ok
           /\ op.res.searched[1] =
                  candidate_path(join(gitroot.path, DotKodegen), op.subdir, op.filename)
           /\ op.res.searched[2] =
                  candidate_path(user_config_dir.path, op.subdir, op.filename)

\* C7, amended: the search trail of a NotFound error is the local candidate
\* followed by the global candidate when the local root is discoverable, and
\* the global candidate alone when it is not.
C7_TrailLocalIfDiscoverable ==
    (op.fn \in Resolvers /\ op.res.kind = "NotFound")
        => /\ user_config_dir.ok
           /\ op.res.searched =
                (IF gitroot.ok
                 THEN <<candidate_path(join(gitroot.path, DotKodegen),
                                       op.subdir, op.filename)>>
                 ELSE <<>>)
                \o <<candidate_path(user_config_dir.path, op.subdir, op.filename)>>

\* NotFound with both roots searched, and NotFound outside a workspace
C7_Witness ==
    /\ op.fn \in Resolvers
    /\ op.res.kind = "NotFound"
    /\ ~gitroot.ok
    /\ Len(op.res.searched) = 1

\* C8: every path a NotFound error lists is absolute, and the list is the
\* candidates attempted, in the order they were attempted.
C8_TrailAbsoluteComplete ==
    (op.fn \in Resolvers /\ op.res.kind = "NotFound")
        => /\ \A i \in 1..Len(op.res.searched) : is_absolute(op.res.searched[i])
           /\ op.res.searched = op.res.tried

(***************************************************************************)
(* Claims about clear_git_root_cache and the exclusive walk.               *)
(***************************************************************************)
\* C11: for each working directory the discovery walk runs at most once while
\* no clear() intervenes (walks counts the walks since the last completed
\* clear, so over any interleaving there is at most one walk per directory
\* before the first clear and one after each clear), and a walk starts only
\* when the directory has no entry, which after the first walk only a clear
\* brings about.
C11_OneWalkPerClear ==
    [][ \A d \in Dirs :
          walks'[d] # walks[d] =>
              \/ \E t \in Threads : pc[t] = "clearing" /\ pc'[t] = "idle"
              \/ walks[d] = 0 /\ walks'[d] = 1 /\ ~cache_has(cache, d) ]_vars

\* two calls from one directory missed the cache, one returned before a clear
\* and one after it: the walk has run again, once
C11_Witness ==
    \E t1, t2 \in Threads :
        /\ t1 # t2
        /\ pc[t1] = "done" /\ pc[t2] = "done"
        /\ key[t1] \in Dirs /\ key[t1] = key[t2]
        /\ missed[t1] /\ missed[t2]
        /\ doneEpoch[t1] = 0 /\ doneEpoch[t2] = 1
        /\ clears = 1
        /\ walks[key[t1]] = 1

\* C12: the step of clear_git_root_cache that clears leaves no entry for any
\* key and runs no discovery (no thread's result changes, no walk is counted);
\* an empty cache becomes non-empty only by the insert of a find_git_root
\* call, and then holds the one entry of that call's own working directory.
C12_ClearDropsAllLazyRefill ==
    [][ /\ (\E t \in Threads : pc[t] = "clearing" /\ pc'[t] = "idle")
            => /\ cache' = {}
               /\ result' = result
               /\ \A d \in Dirs : walks'[d] = 0
        /\ (cache = {} /\ cache' # {})
            => \E t \in Threads :
                  /\ pc[t] = "insert" /\ pc'[t] = "ret"
                  /\ cache' = {<<key[t], cached_value(result[t])>>} ]_vars

\* a clear has emptied a cache that held the entries of two directories: two
\* calls that missed, from different directories, had returned before it
C12_Witness ==
    \E t1, t2 \in Threads :
        /\ pc[t1] \in {"done", "idle"} /\ pc[t2] \in {"done", "idle"}
        /\ missed[t1] /\ missed[t2]
        /\ key[t1] \in Dirs /\ key[t2] \in Dirs /\ key[t1] # key[t2]
        /\ doneEpoch[t1] = 0 /\ doneEpoch[t2] = 0
        /\ clears = 1
        /\ cache = {}

\* C13: a thread between its double check and its return (the walk included)
\* is the writer of the lock, the lock has no reader, and no other thread is
\* at a step that needs the lock held; so at most one thread is in the walk,
\* whatever the working directories.
LockHeldSteps == {"fast", "recheck", "walk", "insert", "ret", "clearing"}
C13_WalkHoldsLockExclusively ==
    \A t \in Threads :
        pc[t] \in {"walk", "insert"} =>
            /\ rw.writer = t
            /\ rw.readers = {}
            /\ \A u \in Threads \ {t} : pc[u] \notin LockHeldSteps

\* one thread is in the walk while a call from another working directory
\* waits for the lock
C13_Witness ==
    \E t, u \in Threads :
        /\ pc[t] = "walk"
        /\ pc[u] \in {"rlock", "wlock"}
        /\ key[u] # key[t]

(***************************************************************************)
(* Claims about errors of the resolver and about validate_name.            *)
(***************************************************************************)
\* C14: when the lookup under the local root found nothing, or there is no
\* local root, and user_config_dir() fails, resolve_toolset and
\* resolve_config_file return that failure ("Cannot determine config
\* directory"), not a NotFound error.
C14_GlobalRootFailurePropagates ==
    (/\ op.fn \in Resolvers
     /\ ~user_config_dir.ok
     /\ ~(gitroot.ok /\ try_resolve_in_dir(join(gitroot.path, DotKodegen),
                                           op.subdir, op.filename).some))
        => /\ op.res.kind = "EnvironmentUnavailable"
           /\ op.res.kind # "NotFound"
           /\ op.res.err = user_config_dir.err

\* the local root was searched without a hit and the global root is unknown
C14_Witness ==
    /\ op.fn \in Resolvers
    /\ gitroot.ok
    /\ ~user_config_dir.ok
    /\ Len(op.res.tried) = 1
    /\ op.res.kind = "EnvironmentUnavailable"

\* what the rules of validate_name look for, character by character
HasChar(name, c) == \E i \in 1..Len(name) : name[i] = c
HasDotDot(name) == \E i \in 1..(Len(name) - 1) : name[i] = Dot /\ name[i + 1] = Dot
Blank(name) == \A i \in 1..Len(name) : name[i] \in {" ", "TAB", "LF"}
LeadingDot(name) == Len(name) > 0 /\ name[1] = Dot

\* C15: validate_name fails for every name that contains '/', '\', "..", a
\* NUL character or a leading '.', and for every empty or whitespace-only
\* name; it succeeds for "core", "my-tool_v2" and "toolset2" (on either build).
C15_ValidateNameRejects ==
    op.fn = "validate_name" =>
        /\ (\/ HasChar(op.name, Slash) \/ HasChar(op.name, "\\")
            \/ HasDotDot(op.name) \/ HasChar(op.name, "NUL")
            \/ LeadingDot(op.name) \/ Blank(op.name)) => op.res # NameOk
        /\ op.name \in {Core, MyToolV2, Toolset2} => op.res = NameOk

\* a name whose only fault is a backslash was rejected
C15_Witness ==
    /\ op.fn = "validate_name"
    /\ op.name = <<"a", "\\", "a">>
    /\ op.res = "contains backslash"

\* C16: the error validate_name returns is that of the first broken rule in
\* the order empty/whitespace-only, forward slash, backslash, "..", NUL,
\* leading '.', Windows reserved device name (the last on the Windows build
\* only); "../x" yields the forward-slash error and ".." the '..' error.
C16_FirstBrokenRuleDecides ==
    op.fn = "validate_name" =>
        /\ op.res =
             (CASE Blank(op.name) -> "empty or whitespace-only"
                [] HasChar(op.name, Slash) -> "contains forward slash"
                [] HasChar(op.name, "\\") -> "contains backslash"
                [] HasDotDot(op.name) -> "contains '..'"
                [] HasChar(op.name, "NUL") -> "contains null bytes"
                [] LeadingDot(op.name) -> "starts with '.'"
                [] op.os = "windows" /\ base_name(op.name) \in WINDOWS_RESERVED_NAMES
                       -> "is a Windows reserved device name"
                [] OTHER -> NameOk)
        /\ op.name = <<Dot, Dot, Slash, "x">> => op.res = "contains forward slash"
        /\ op.name = <<Dot, Dot>> => op.res = "contains '..'"

\* a name that breaks the '..' rule and the hidden-file rule got the '..' error
C16_Witness ==
    /\ op.fn = "validate_name"
    /\ op.name = <<Dot, Dot>>
    /\ op.res = "contains '..'"

(***************************************************************************)
(* Claims about validate_env_path.                                         *)
(***************************************************************************)
\* a boundary as the policy compares it: canonical when it can be
Boundary(p) == IF canonicalize(p).ok THEN canonicalize(p).path ELSE p
UnderBoundary(q, p) == starts_with(q, Boundary(p))

\* C17: on a Unix host validate_env_path returns a path only if the path lies
\* under the canonicalized home directory, /tmp or /var/tmp; "/etc" is
\* rejected, and "$HOME/.config2" is accepted (the home directory exists).
C17_UnixBoundaries ==
    (op.fn = "validate_env_path" /\ op.os = "unix") =>
        /\ op.res.ok =>
              \/ (home.some /\ UnderBoundary(op.res.path, home.path))
              \/ UnderBoundary(op.res.path, TmpDir)
              \/ UnderBoundary(op.res.path, VarTmpDir)
        /\ op.path = EtcDir => ~op.res.ok
        /\ (home.some /\ canonicalize(home.path).ok /\ op.path = Config2)
              => op.res = EnvOk(Config2)

\* a path inside the home directory that is a link to /etc was rejected by
\* the boundary check
C17_Witness ==
    /\ op.fn = "validate_env_path" /\ op.os = "unix"
    /\ home.some
    /\ op.path = OutLink
    /\ canonicalize(OutLink).ok /\ canonicalize(OutLink).path = EtcDir
    /\ op.res = EnvErr("Path must be under user home directory, /tmp, or /var/tmp")

\* what the pre-filter looks for, character by character
FourDots(p) ==
    \E i \in 1..(Len(p) - 3) : \A j \in 0..3 : p[i + j] = Dot
Suspicious(p) ==
    \/ FourDots(p)
    \/ HasChar(p, "NUL")
    \/ \E i \in 1..Len(p) : p[i] \in {"NUL", "ESC"}

\* C18: a raw value with four or more consecutive dots, a NUL or a control
\* character other than tab and newline is rejected by the pre-filter: the
\* result is the pre-filter's error whatever the filesystem holds, so no
\* outcome of a filesystem call enters it; a value whose control characters
\* are tabs and newlines only is not rejected by the pre-filter.
C18_PrefilterFirst ==
    (op.fn = "validate_env_path" /\ op.os = "unix") =>
        (op.res = EnvErr("Path contains suspicious patterns")) <=> Suspicious(op.path)

\* a value that exists on disk apart from its four dots, and one with a NUL
C18_Witness ==
    /\ op.fn = "validate_env_path"
    /\ op.path = HomeDir \o <<Slash, Dot, Dot, Dot, Dot>>
    /\ canonicalize(HomeDir).ok
    /\ op.res = EnvErr("Path contains suspicious patterns")

\* C19: when the raw path does not exist but the directory that holds it
\* does, the result, if any, is canonical(that directory) joined with the
\* final file name, and a failure is one of the absolute or boundary checks;
\* when that directory does not exist either, validate_env_path fails.
C19_ParentFallback ==
    (/\ op.fn = "validate_env_path" /\ op.os = "unix"
     /\ ~Suspicious(op.path)
     /\ canonicalize(op.path) = CanonErr("NotFound")
     /\ has_parent(op.path) /\ has_file_name(op.path)) =>
        LET dir == IF is_absolute(op.path) THEN parent(op.path)
                   ELSE join(WorkDir, parent(op.path))
        IN  IF canonicalize(dir).ok
            THEN IF op.res.ok
                 THEN op.res.path = join(canonicalize(dir).path, file_name(op.path))
                 ELSE op.res.err \in
                        {"Path must be absolute",
                         "Path must be under user home directory, /tmp, or /var/tmp"}
            ELSE ~op.res.ok

\* C20: on the Windows policy each rejection carries the error of the rule
\* violated: a canonical path starting with \\?\ or \\.\ the device-path
\* error, a \\server\share path the UNC error, a path outside %APPDATA% and
\* %LOCALAPPDATA% the boundary error.
C20_WindowsErrorPerRule ==
    (op.fn = "validate_env_path" /\ op.os = "windows") =>
        LET device == \/ StartsWithStr(op.path, <<"\\", "\\", "?", "\\">>)
                      \/ StartsWithStr(op.path, <<"\\", "\\", Dot, "\\">>)
            unc == StartsWithStr(op.path, <<"\\", "\\">>) /\ ~device
            inside == \/ (op.appdata.some
                          /\ win_starts_with(op.path, op.appdata.path))
                      \/ (op.localappdata.some
                          /\ win_starts_with(op.path, op.localappdata.path))
        IN  /\ device => op.res = ErrDevice
            /\ unc => op.res = ErrUnc
            /\ (~device /\ ~unc /\ ~inside) => op.res = ErrAppData

(***************************************************************************)
(* Claims about the bounded lookup and the standalone boundary check.      *)
(***************************************************************************)
\* C21: on one filesystem state, try_resolve_in_dir(base, subdir, filename)
\* returns a path exactly when verify_within_directory holds of the candidate
\* base/subdir/filename and the boundary base/subdir (base/filename and base
\* when subdir is empty).
C21_ResolveIffVerified ==
    op.fn = "try_resolve_in_dir" =>
        (op.res.some <=>
            verify_within_directory(search_path(op.base, op.subdir, op.name),
                                    base_path(op.base, op.subdir)))

\* a lookup refused although the candidate exists: it resolves outside the
\* boundary, and verify_within_directory refuses the same pair
C21_Witness ==
    /\ op.fn = "try_resolve_in_dir"
    /\ op.res = NoPath
    /\ canonicalize(search_path(op.base, op.subdir, op.name)).ok
    /\ canonicalize(base_path(op.base, op.subdir)).ok

\* C22: the category-to-port table CATEGORY_PORTS contains exactly 14
\* mappings, which is what tests::test_category_count asserts.
C22_FourteenMappings ==
    /\ Len(CATEGORY_PORTS) = 14
    /\ op.fn = "tests" => op.count # "panicked"

\* the components of q begin with all the components of p, in order
ComponentPrefix(p, q) ==
    /\ Len(components(p)) <= Len(components(q))
    /\ \A i \in 1..Len(components(p)) : components(q)[i] = components(p)[i]

\* C23: try_resolve_in_dir returns canonical(base/subdir/filename) when the
\* candidate and the boundary base/subdir both canonicalize and the canonical
\* boundary is a component-wise prefix of the canonical candidate, and
\* nothing in every other case; a candidate under a sibling directory whose
\* name extends the name of the boundary is outside it.
C23_CanonicalOrNothing ==
    op.fn = "try_resolve_in_dir" =>
        LET cf == canonicalize(search_path(op.base, op.subdir, op.name))
            cb == canonicalize(base_path(op.base, op.subdir))
        IN  op.res = IF cf.ok /\ cb.ok /\ ComponentPrefix(cb.path, cf.path)
                     THEN SomePath(cf.path)
                     ELSE NoPath

\* the candidate resolves into the sibling directory: the string of the
\* boundary begins the string of the candidate, and the lookup returns nothing
C23_Witness ==
    /\ op.fn = "try_resolve_in_dir"
    /\ canonicalize(base_path(op.base, op.subdir)).ok
    /\ canonicalize(search_path(op.base, op.subdir, op.name)).ok
    /\ StartsWithStr(canonicalize(search_path(op.base, op.subdir, op.name)).path,
                     canonicalize(base_path(op.base, op.subdir)).path)
    /\ op.res = NoPath

(***************************************************************************)
(* Claims about the paths of find_git_root through the cache.              *)
(***************************************************************************)
\* C24: a find_git_root call that finds its key in the cache while it holds
\* the shared lock returns the cached value (Some(p) as the success p, None
\* as the not-in-a-repository error) without acquiring the exclusive lock and
\* without running the discovery walk, and leaves the cache unchanged.
C24_FastPathStep ==
    \A t \in Threads :
        (/\ pc[t] = "fast"
         /\ t \in rw.readers
         /\ cache_has(cache, key[t])
         /\ pc'[t] # "fast")
            => /\ pc'[t] = "done"
               /\ IF cache_get(cache, key[t]).some
                  THEN result'[t] = Ok(cache_get(cache, key[t]).path)
                  ELSE ~result'[t].ok /\ result'[t].msg = MsgNotInRepo
               /\ rw'.writer = rw.writer
               /\ rw'.writer # t
               /\ walks' = walks
               /\ cache' = cache
C24_FastPathHitReturnsCached == [][C24_FastPathStep]_vars

\* a call that did not miss on the fast path returned the cached None as the
\* not-in-a-repository error, with no walk since the entry was made by another
C24_Witness ==
    \E t \in Threads :
        /\ pc[t] = "done"
        /\ key[t] # NoCwd
        /\ ~missed[t]
        /\ result[t].msg = MsgNotInRepo
        /\ cache_has(cache, key[t])
        /\ walks[key[t]] = 1

\* C26: when the current working directory cannot be read, find_git_root
\* returns an error without acquiring the cache lock, without running the
\* discovery walk and without adding or changing any cache entry.
C26_NoCwdStep ==
    (/\ cwd = NoCwd
     /\ calls' = calls + 1
     /\ \A t \in Threads : pc'[t] = "clock" => pc[t] = "clock")
        => /\ \A t \in Threads : pc'[t] \in {pc[t], "done"}
           /\ \E t \in Threads :
                /\ pc[t] \in {"idle", "done"}
                /\ pc'[t] = "done"
                /\ result'[t] = Err(MsgNoCwd, "")
           /\ rw' = rw
           /\ walks' = walks
           /\ cache' = cache
C26_NoCwdFailsBeforeCache == [][C26_NoCwdStep]_vars

\* a call failed on the working directory while the cache held an entry
C26_Witness ==
    \E t \in Threads :
        /\ pc[t] = "done"
        /\ result[t] = Err(MsgNoCwd, "")
        /\ key[t] = NoCwd
        /\ cache # {}

\* the thread is inside a find_git_root or clear_git_root_cache call
InCall(t) == pc[t] \notin {"idle", "done"}

\* the thread waits for GIT_ROOT_CACHE's lock
Waiting(t) == pc[t] \in {"rlock", "wlock", "clock"}

\* the thread holds GIT_ROOT_CACHE's lock, shared or exclusive
Holding(t) == t \in rw.readers \/ rw.writer = t

\* C25: every find_git_root call and every clear_git_root_cache call
\* eventually returns, for threads that call them concurrently, given a fair
\* lock and a discovery walk that terminates; find_git_root releases the
\* shared lock before it requests the exclusive lock, so no thread waits for
\* the lock while it holds it.
C25_EveryCallReturns ==
    /\ [](\A t \in Threads : Waiting(t) => ~Holding(t))
    /\ \A t \in Threads : InCall(t) ~> ~InCall(t)

\* a thread that missed on the fast path waits for the exclusive lock while
\* the other thread holds it
C25_Witness ==
    \E t, u \in Threads :
        /\ pc[t] = "wlock"
        /\ missed[t]
        /\ rw.writer = u
        /\ u # t

(***************************************************************************)
(* Claims about the directories a resolved path lies in.                   *)
(***************************************************************************)
\* the directory canonicalizes and the path lies inside its canonical form
InsideCanonical(p, c) == c.ok /\ starts_with(p, c.path)

\* the root is known and p lies inside its canonical form
InsideRoot(p, root) ==
    root.ok /\ InsideCanonical(p, canonicalize(root.path))

\* C27: for any filename string, including one with ".." segments, with path
\* separators, or that is an absolute path, a path returned by
\* resolve_config_file lies inside the canonical local config directory or
\* inside the canonical global config directory.
C27_ConfigFileInsideARoot ==
    (op.fn = "resolve_config_file" /\ op.res.kind = "Ok")
        => \/ InsideRoot(op.res.path, local_config_dir)
           \/ InsideRoot(op.res.path, user_config_dir)

\* a filename with a path separator was resolved to a file
C27_Witness ==
    /\ op.fn = "resolve_config_file"
    /\ op.res.kind = "Ok"
    /\ \E i \in 1..Len(op.filename) : op.filename[i] = Slash

\* C28: a path returned by try_resolve_in_dir(base, subdir, filename) with a
\* non-empty subdir lies inside the canonical form of the root base itself,
\* for every layout, including one where base/subdir is a symbolic link.
C28_InsideCanonicalRoot ==
    (op.fn = "try_resolve_in_dir" /\ op.subdir # <<>> /\ op.res.some)
        => InsideCanonical(op.res.path, canonicalize(op.base))

(***************************************************************************)
(* Claims about what an accepted environment path resolves to.             *)
(***************************************************************************)
\* the target of the symbolic link p names, with the directory that would
\* hold it canonical when that directory exists
LinkTarget(p) ==
    LET tg == fs[components(p)].target
    IN  IF has_parent(tg) /\ canonicalize(parent(tg)).ok /\ has_file_name(tg)
        THEN join(canonicalize(parent(tg)).path, file_name(tg))
        ELSE tg

\* the path with every symbolic link in it resolved: the canonical path when
\* it exists, else the place the link that ends it points to
FullyResolved(p) ==
    IF canonicalize(p).ok THEN canonicalize(p).path
    ELSE IF components(p) \in DOMAIN fs /\ fs[components(p)].kind = "link"
    THEN LinkTarget(p)
    ELSE p

\* C29: every path validate_env_path accepts on a Unix host lies under the
\* canonical home directory, /tmp or /var/tmp once every symbolic link in it
\* is resolved, including a path accepted through the parent fallback whose
\* final component is a symbolic link with a target that does not exist.
C29_AcceptedResolvesInside ==
    (op.fn = "validate_env_path" /\ op.os = "unix" /\ op.res.ok) =>
        \/ (home.some /\ UnderBoundary(FullyResolved(op.res.path), home.path))
        \/ UnderBoundary(FullyResolved(op.res.path), TmpDir)
        \/ UnderBoundary(FullyResolved(op.res.path), VarTmpDir)

\* C30: when the local root is discoverable and the bounded lookup under it
\* finds the resource, resolve_toolset and resolve_config_file return that
\* path without looking up the global root (the search trail holds the local
\* candidate alone), so they succeed also when the global root cannot be
\* determined.
C30_LocalHitNeedsNoGlobalRoot ==
    (/\ op.fn \in Resolvers
     /\ gitroot.ok
     /\ try_resolve_in_dir(join(gitroot.path, DotKodegen), op.subdir, op.filename).some)
        => /\ op.res.kind = "Ok"
           /\ SomePath(op.res.path) =
                  try_resolve_in_dir(join(gitroot.path, DotKodegen),
                                     op.subdir, op.filename)
           /\ op.res.searched =
                  <<candidate_path(join(gitroot.path, DotKodegen),
                                   op.subdir, op.filename)>>
           /\ op.res.err = ""

\* the global root cannot be determined and the local resource was returned
C30_Witness ==
    /\ op.fn = "resolve_toolset"
    /\ gitroot.ok
    /\ ~user_config_dir.ok
    /\ op.res.kind = "Ok"
    /\ starts_with(op.res.path, LocalRoot)

====
